---- MODULE Spec2Model ----
(***************************************************************************)
(* A model of wxinflux: the serial connection manager                      *)
(* (connectToSerialSi1000), the packet reader (readReports), the report    *)
(* writer (storeReports) and the metric calculator (weather_calc.go).      *)
(*                                                                         *)
(* float32 values are modelled in fixed point, in thousandths (68 F is     *)
(* 68000).  Goroutines are tasks with a program counter each; one action   *)
(* is one statement (or one run of statements touching only locals).       *)
(***************************************************************************)
EXTENDS Integers, Sequences, FiniteSets

VARIABLES
    status,      \* d.status
    conn,        \* d.conn: 0 is nil, n > 0 the n-th opened port
    rlock,       \* d.statusMu: the tasks holding it for reading
    wlock,       \* d.statusMu: the task holding it for writing, or NoTask
    pc,          \* each task's position
    caller,      \* each task's return address out of connectToSerialSi1000
    fails,       \* each task's consecutive failed OpenPort calls (saturating)
    nOpened,     \* ports opened so far
    dec,         \* readReports' dec: the handle it was created over
    packet,      \* readReports' packet
    err,         \* readReports' err
    report,      \* readReports' report
    wreport,     \* storeReports' report
    inputs,      \* history: what each Decode that did not return io.EOF had read
    derived,     \* history: the reports generateWxReport returned, in order
    received,    \* history: the reports storeReports received, in order
    wlog,        \* history: per received report, what storeReports did with it
    nDecodes,    \* history: Decode calls
    okDecodes,   \* history: Decode calls that returned nil
    eofs,        \* history: Decode calls that returned io.EOF
    reconnects,  \* history: connectToSerialSi1000 calls made by readReports
    acc          \* history: the last step's access to d.status or d.conn

vars == <<status, conn, rlock, wlock, pc, caller, fails, nOpened, dec, packet,
          err, report, wreport, inputs, derived, received, wlog, nDecodes, okDecodes,
          eofs, reconnects, acc>>

----------------------------------------------------------------------------
(* Bounds *)

MaxDecodes == 3
MaxFails == 2

----------------------------------------------------------------------------
(* ConnStatus *)

NotConnected == 0
Connecting == 1
Connected == 2

NoTask == "none"
Tasks == {"main", "writer", "aux"}

----------------------------------------------------------------------------
(* weather_calc.go, in thousandths *)

\* the float32 NaN, which every operation on it returns
NaN == -999999999

fToC(t) == IF t = NaN THEN NaN ELSE ((t - 32000) * 5) \div 9

cToF(t) == IF t = NaN THEN NaN ELSE ((t * 9) \div 5) + 32000

\* math.Log(rh) * 1000 for the ratios rh (in thousandths) the packets use
LogMilli(rh) ==
    CASE rh = 500 -> -693
      [] rh = 600 -> -511
      [] rh = 300 -> -1204
      [] rh = 400 -> -916
      [] rh = 1000 -> 0

\* math.Pow(ws, 0.16) * 1000 for the wind speeds (in thousandths) the packets use
Pow016Milli(ws) ==
    CASE ws = 5000 -> 1294
      [] ws = 15000 -> 1542
      [] ws = 1000 -> 1000

\* dewpointCelcius without the t < 0 guard
dewpointCelciusNoGuard(t, rh) ==
    IF t = -237700 THEN 0
    ELSE IF rh <= 0 THEN NaN
    ELSE LET g == ((17270 * t) \div (237700 + t)) + LogMilli(rh \div 100)
         IN  IF g = 17270 THEN 0
             ELSE (237700 * g) \div (17270 - g)

dewpointCelcius(t, rh) ==
    IF t < 0 THEN 0
    ELSE IF t = -237700 THEN 0
    ELSE IF rh <= 0 THEN NaN  \* math.Log is -Inf (or NaN): -Inf / +Inf at line 31
    ELSE LET g == ((17270 * t) \div (237700 + t)) + LogMilli(rh \div 100)
         IN  IF g = 17270 THEN 0
             ELSE (237700 * g) \div (17270 - g)

dewpointFahrenheit(t, rh) == cToF(dewpointCelcius(fToC(t), rh))

\* line 43
WcF(t, ws) ==
    35740 + ((6215 * (t \div 10)) \div 1000)
    + (((-35750 + ((4275 * (t \div 10)) \div 1000)) * Pow016Milli(ws)) \div 1000)

windchillFahrenheit(t, ws) ==
    IF t >= 50000 \/ ws <= 0 THEN t
    ELSE WcF(t, ws)

\* heatIndexFahrenheit with rh < 40.0 for rh <= 40.0
heatIndexFahrenheitLt(t, rh) ==
    IF t < 80000 \/ rh < 40000 THEN t
    ELSE LET T == t \div 1000
             R == rh \div 1000
         IN  -42379 + ((204901 * T) \div 100) + ((1014333 * R) \div 100)
             - ((22475 * T * R) \div 100) - ((6838 * T * T) \div 1000)
             - ((54817 * R * R) \div 1000) + ((1229 * T * T * R) \div 1000)
             + ((853 * T * R * R) \div 1000) - ((199 * ((T * T * R * R) \div 1000)) \div 100)

\* the polynomial is evaluated on whole degrees and whole percents
heatIndexFahrenheit(t, rh) ==
    IF t < 80000 \/ rh <= 40000 THEN t
    ELSE LET T == t \div 1000
             R == rh \div 1000
         IN  -42379 + ((204901 * T) \div 100) + ((1014333 * R) \div 100)
             - ((22475 * T * R) \div 100) - ((6838 * T * T) \div 1000)
             - ((54817 * R * R) \div 1000) + ((1229 * T * T * R) \div 1000)
             + ((853 * T * R * R) \div 1000) - ((199 * ((T * T * R * R) \div 1000)) \div 100)

----------------------------------------------------------------------------
(* WxPacket, WxReport *)

Pkt(id, ws, t, rh, spoons) ==
    [TransmitterID |-> id, WindSpeed |-> ws, WindDir |-> 180, Temperature |-> t,
     Humidity |-> rh, UVIndex |-> 0, SolarRadiation |-> 0, RainSpoons |-> spoons]

\* var packet WxPacket
ZeroPacket ==
    [TransmitterID |-> 0, WindSpeed |-> 0, WindDir |-> 0, Temperature |-> 0,
     Humidity |-> 0, UVIndex |-> 0, SolarRadiation |-> 0, RainSpoons |-> 0]

\* the complete records the device sends
Packets == {Pkt(1, 15, 20000, 50000, 3), Pkt(2, 5, 90000, 60000, 1)}

\* a record on the wire: the fields it carries (the others are omitted) and
\* their values
Rec(present, val) ==
    [present |-> present,
     val |-> [f \in DOMAIN val |-> IF f \in present THEN val[f] ELSE 0]]

AllFields == DOMAIN ZeroPacket

\* records with fields left out
AbsentRecords ==
    {Rec({"TransmitterID", "Temperature"}, Pkt(1, 0, 68000, 0, 0))}

\* the records the device sends
Records == {Rec(AllFields, p) : p \in Packets} \cup AbsentRecords

\* what Decode had read of a malformed record when it returned its error
PartialRecords == {Rec({}, ZeroPacket)} \cup AbsentRecords

\* line 118, Decode(&packet): the fields the record carries are set, the others
\* are left as they are
Fill(p, r) == [f \in DOMAIN p |-> IF f \in r.present THEN r.val[f] ELSE p[f]]

\* NewPacket with packet declared outside the loop: it still holds what the
\* last Decode read
NewPacketStale(p) ==
    IF inputs = <<>> THEN p ELSE Fill(p, inputs[Len(inputs)])

\* line 117, var packet WxPacket: a zero value, whatever the last iteration's
\* packet p held
NewPacket(p) == ZeroPacket

generateWxReport(p) ==
    [TransmitterID |-> p.TransmitterID,
     WindSpeed |-> p.WindSpeed,
     WindDir |-> p.WindDir,
     Temperature |-> p.Temperature,
     Humidity |-> p.Humidity,
     Dewpoint |-> dewpointFahrenheit(p.Temperature, p.Humidity),
     HeatIndex |-> heatIndexFahrenheit(p.Temperature, p.Humidity),
     WindChill |-> windchillFahrenheit(p.Temperature, p.WindSpeed * 1000),
     UVIndex |-> p.UVIndex,
     SolarRadiation |-> p.SolarRadiation,
     Rainfall |-> p.RainSpoons * 100]

ZeroReport ==
    [TransmitterID |-> 0, WindSpeed |-> 0, WindDir |-> 0, Temperature |-> 0,
     Humidity |-> 0, Dewpoint |-> 0, HeatIndex |-> 0, WindChill |-> 0,
     UVIndex |-> 0, SolarRadiation |-> 0, Rainfall |-> 0]

----------------------------------------------------------------------------
(* sync.RWMutex, and the record of accesses to the shared fields *)

Held(t) == IF wlock = t THEN "W" ELSE IF t \in rlock THEN "R" ELSE "none"

NoAccess == [task |-> NoTask, obj |-> "none", kind |-> "none", held |-> "none"]

Access(t, o, k) == [task |-> t, obj |-> o, kind |-> k, held |-> Held(t)]

Goto(t, l) == pc' = [pc EXCEPT ![t] = l]

\* where connectToSerialSi1000 returns to
ReturnTo(t) ==
    CASE caller[t] = "main213" -> "m_go"
      [] caller[t] = "read123" -> "r_break"
      [] OTHER -> "h_done"

Bump(n) == IF n < MaxFails THEN n + 1 ELSE n

lockVars == <<rlock, wlock>>
readerVars == <<dec, packet, err, report>>
writerVars == <<wreport, wlog>>
histVars == <<inputs, derived, received, nDecodes, okDecodes, eofs, reconnects>>
connVars == <<status, conn, fails, nOpened>>

----------------------------------------------------------------------------
(* connectToSerialSi1000, run by task t *)

\* line 79
ConnRLock(t) ==
    /\ pc[t] = "c_rlock"
    /\ wlock = NoTask
    /\ rlock' = rlock \cup {t}
    /\ Goto(t, "c_switch")
    /\ acc' = NoAccess
    /\ UNCHANGED <<wlock, caller, connVars, readerVars, writerVars, histVars>>

\* ConnSwitch without the Connecting case: a caller that finds an attempt in
\* progress starts its own
ConnSwitchNoSkip(t) ==
    /\ pc[t] = "c_switch"
    /\ acc' = Access(t, "status", "read")
    /\ rlock' = IF status \in {Connecting, NotConnected} THEN rlock \ {t} ELSE rlock
    /\ Goto(t, IF status \in {Connecting, NotConnected} THEN "c_lock1" ELSE ReturnTo(t))
    /\ UNCHANGED <<wlock, caller, connVars, readerVars, writerVars, histVars>>

\* lines 81-87: the switch reads d.status and the case taken releases the read
\* lock; there is no case for Connected, which leaves the switch and returns
ConnSwitch(t) ==
    /\ pc[t] = "c_switch"
    /\ acc' = Access(t, "status", "read")
    /\ rlock' = IF status \in {Connecting, NotConnected} THEN rlock \ {t} ELSE rlock
    /\ Goto(t, IF status = NotConnected THEN "c_lock1" ELSE ReturnTo(t))
    /\ UNCHANGED <<wlock, caller, connVars, readerVars, writerVars, histVars>>

\* line 88
ConnLock1(t) ==
    /\ pc[t] = "c_lock1"
    /\ wlock = NoTask
    /\ rlock = {}
    /\ wlock' = t
    /\ Goto(t, "c_connecting")
    /\ acc' = NoAccess
    /\ UNCHANGED <<rlock, caller, connVars, readerVars, writerVars, histVars>>

\* ConnSetConnecting with the assignment d.status = Connecting left out
ConnSetConnectingSkip(t) ==
    /\ pc[t] = "c_connecting"
    /\ acc' = NoAccess
    /\ Goto(t, "c_unlock1")
    /\ UNCHANGED <<lockVars, caller, connVars, readerVars, writerVars, histVars>>

\* line 89
ConnSetConnecting(t) ==
    /\ pc[t] = "c_connecting"
    /\ status' = Connecting
    /\ acc' = Access(t, "status", "write")
    /\ Goto(t, "c_unlock1")
    /\ UNCHANGED <<lockVars, caller, conn, fails, nOpened, readerVars, writerVars,
                   histVars>>

\* lines 90-92
ConnUnlock1(t) ==
    /\ pc[t] = "c_unlock1"
    /\ wlock' = IF wlock = t THEN NoTask ELSE wlock
    /\ Goto(t, "c_open")
    /\ acc' = NoAccess
    /\ UNCHANGED <<rlock, caller, connVars, readerVars, writerVars, histVars>>

\* OpenPortFail with the failure escalated: the state is reset and connect returns
OpenPortFailGiveUp(t) ==
    /\ pc[t] = "c_open"
    /\ conn' = 0
    /\ status' = NotConnected
    /\ fails' = [fails EXCEPT ![t] = Bump(@)]
    /\ acc' = Access(t, "conn", "write")
    /\ Goto(t, ReturnTo(t))
    /\ UNCHANGED <<lockVars, caller, nOpened, readerVars, writerVars, histVars>>

\* lines 93-97, err != nil: OpenPort returned (nil, err)
OpenPortFail(t) ==
    /\ pc[t] = "c_open"
    /\ conn' = 0
    /\ fails' = [fails EXCEPT ![t] = Bump(@)]
    /\ acc' = Access(t, "conn", "write")
    /\ Goto(t, "c_sleep")
    /\ UNCHANGED <<lockVars, caller, status, nOpened, readerVars, writerVars, histVars>>

\* line 96
ConnSleep(t) ==
    /\ pc[t] = "c_sleep"
    /\ Goto(t, "c_open")
    /\ acc' = NoAccess
    /\ UNCHANGED <<lockVars, caller, connVars, readerVars, writerVars, histVars>>

\* lines 93-98, err == nil
OpenPortOk(t) ==
    /\ pc[t] = "c_open"
    /\ nOpened' = nOpened + 1
    /\ conn' = nOpened + 1
    /\ fails' = [fails EXCEPT ![t] = 0]
    /\ acc' = Access(t, "conn", "write")
    /\ Goto(t, "c_lock2")
    /\ UNCHANGED <<lockVars, caller, status, readerVars, writerVars, histVars>>

\* line 99
ConnLock2(t) ==
    /\ pc[t] = "c_lock2"
    /\ wlock = NoTask
    /\ rlock = {}
    /\ wlock' = t
    /\ Goto(t, "c_connected")
    /\ acc' = NoAccess
    /\ UNCHANGED <<rlock, caller, connVars, readerVars, writerVars, histVars>>

\* ConnSetConnected with the assignment d.status = Connected left out
ConnSetConnectedSkip(t) ==
    /\ pc[t] = "c_connected"
    /\ acc' = NoAccess
    /\ Goto(t, "c_unlock2")
    /\ UNCHANGED <<lockVars, caller, connVars, readerVars, writerVars, histVars>>

\* line 100
ConnSetConnected(t) ==
    /\ pc[t] = "c_connected"
    /\ status' = Connected
    /\ acc' = Access(t, "status", "write")
    /\ Goto(t, "c_unlock2")
    /\ UNCHANGED <<lockVars, caller, conn, fails, nOpened, readerVars, writerVars,
                   histVars>>

\* lines 101-103
ConnUnlock2(t) ==
    /\ pc[t] = "c_unlock2"
    /\ wlock' = IF wlock = t THEN NoTask ELSE wlock
    /\ Goto(t, ReturnTo(t))
    /\ acc' = NoAccess
    /\ UNCHANGED <<rlock, caller, connVars, readerVars, writerVars, histVars>>

connectToSerialSi1000(t) ==
    \/ ConnRLock(t)
    \/ ConnSwitch(t)
    \/ ConnLock1(t)
    \/ ConnSetConnecting(t)
    \/ ConnUnlock1(t)
    \/ OpenPortFail(t)
    \/ ConnSleep(t)
    \/ OpenPortOk(t)
    \/ ConnLock2(t)
    \/ ConnSetConnected(t)
    \/ ConnUnlock2(t)

----------------------------------------------------------------------------
(* readReports, run by the main task *)

\* line 114
ReaderNewDecoder ==
    /\ pc["main"] = "r_newdec"
    /\ dec' = conn
    /\ acc' = Access("main", "conn", "read")
    /\ Goto("main", "r_decode")
    /\ UNCHANGED <<lockVars, caller, connVars, packet, err, report, writerVars,
                   histVars>>

\* lines 117-118, Decode returns nil
DecodeOk ==
    /\ pc["main"] = "r_decode"
    /\ nDecodes < MaxDecodes
    /\ \E r \in Records :
          /\ packet' = Fill(NewPacket(packet), r)
          /\ inputs' = Append(inputs, r)
    /\ err' = "nil"
    /\ nDecodes' = nDecodes + 1
    /\ okDecodes' = okDecodes + 1
    /\ Goto("main", "r_gen")
    /\ acc' = NoAccess
    /\ UNCHANGED <<lockVars, caller, connVars, dec, report, writerVars, derived,
                   received, eofs, reconnects>>

\* lines 117-119, Decode returns io.EOF
DecodeEOF ==
    /\ pc["main"] = "r_decode"
    /\ nDecodes < MaxDecodes
    /\ packet' = NewPacket(packet)
    /\ err' = "EOF"
    /\ nDecodes' = nDecodes + 1
    /\ eofs' = eofs + 1
    /\ Goto("main", "r_lock")
    /\ acc' = NoAccess
    /\ UNCHANGED <<inputs, lockVars, caller, connVars, dec, report, writerVars, derived,
                   received, okDecodes, reconnects>>

\* lines 117-118, Decode returns an error that is not io.EOF (a malformed record):
\* err == io.EOF is false and control falls through to line 126
DecodeMalformed ==
    /\ pc["main"] = "r_decode"
    /\ nDecodes < MaxDecodes
    /\ \E r \in PartialRecords :
          /\ packet' = Fill(NewPacket(packet), r)
          /\ inputs' = Append(inputs, r)
    /\ err' = "malformed"
    /\ nDecodes' = nDecodes + 1
    /\ Goto("main", "r_gen")
    /\ acc' = NoAccess
    /\ UNCHANGED <<lockVars, caller, connVars, dec, report, writerVars, derived,
                   received, okDecodes, eofs, reconnects>>

\* ReaderLock with d.statusMu.Lock() left out
ReaderLockSkip ==
    /\ pc["main"] = "r_lock"
    /\ Goto("main", "r_notconn")
    /\ acc' = NoAccess
    /\ UNCHANGED <<lockVars, caller, connVars, readerVars, writerVars, histVars>>

\* line 120
ReaderLock ==
    /\ pc["main"] = "r_lock"
    /\ wlock = NoTask
    /\ rlock = {}
    /\ wlock' = "main"
    /\ Goto("main", "r_notconn")
    /\ acc' = NoAccess
    /\ UNCHANGED <<rlock, caller, connVars, readerVars, writerVars, histVars>>

\* ReaderSetNotConnected with the assignment d.status = NotConnected left out
ReaderSetNotConnectedSkip ==
    /\ pc["main"] = "r_notconn"
    /\ acc' = NoAccess
    /\ Goto("main", "r_unlock")
    /\ UNCHANGED <<lockVars, caller, connVars, readerVars, writerVars, histVars>>

\* line 121
ReaderSetNotConnected ==
    /\ pc["main"] = "r_notconn"
    /\ status' = NotConnected
    /\ acc' = Access("main", "status", "write")
    /\ Goto("main", "r_unlock")
    /\ UNCHANGED <<lockVars, caller, conn, fails, nOpened, readerVars, writerVars,
                   histVars>>

\* line 122
ReaderUnlock ==
    /\ pc["main"] = "r_unlock"
    /\ wlock' = IF wlock = "main" THEN NoTask ELSE wlock
    /\ Goto("main", "r_call")
    /\ acc' = NoAccess
    /\ UNCHANGED <<rlock, caller, connVars, readerVars, writerVars, histVars>>

\* line 123
ReaderCallConnect ==
    /\ pc["main"] = "r_call"
    /\ caller' = [caller EXCEPT !["main"] = "read123"]
    /\ reconnects' = reconnects + 1
    /\ Goto("main", "c_rlock")
    /\ acc' = NoAccess
    /\ UNCHANGED <<inputs, lockVars, connVars, readerVars, writerVars, derived, received,
                   nDecodes, okDecodes, eofs>>

\* ReaderBreak as continue: the inner loop goes on with the decoder it has
ReaderBreakContinue ==
    /\ pc["main"] = "r_break"
    /\ packet' = ZeroPacket
    /\ err' = "nil"
    /\ Goto("main", "r_decode")
    /\ acc' = NoAccess
    /\ UNCHANGED <<lockVars, caller, connVars, dec, report, writerVars, histVars>>

\* line 124: out of the inner loop; packet and err go out of scope
ReaderBreak ==
    /\ pc["main"] = "r_break"
    /\ packet' = ZeroPacket
    /\ err' = "nil"
    /\ Goto("main", "r_newdec")
    /\ acc' = NoAccess
    /\ UNCHANGED <<lockVars, caller, connVars, dec, report, writerVars, histVars>>

\* line 126
ReaderGenerate ==
    /\ pc["main"] = "r_gen"
    /\ report' = generateWxReport(packet)
    /\ derived' = Append(derived, generateWxReport(packet))
    /\ Goto("main", "r_send")
    /\ acc' = NoAccess
    /\ UNCHANGED <<inputs, lockVars, caller, connVars, dec, packet, err, writerVars,
                   received, nDecodes, okDecodes, eofs, reconnects>>

----------------------------------------------------------------------------
(* the unbuffered reportChan: line 127 and line 135 happen together *)

NewEntry == [bp |-> "pending", writes |-> 0, wr |-> "none"]

\* Handoff with the receiver handed the report while the sender stays blocked
HandoffDup ==
    /\ pc["main"] = "r_send"
    /\ pc["writer"] = "w_recv"
    /\ wreport' = report
    /\ received' = Append(received, report)
    /\ wlog' = Append(wlog, NewEntry)
    /\ Goto("writer", "w_batch")
    /\ acc' = NoAccess
    /\ UNCHANGED <<inputs, lockVars, caller, connVars, readerVars, derived, nDecodes,
                   okDecodes, eofs, reconnects>>

\* Handoff as a non-blocking send: when the receiver is busy the report is dropped
HandoffDrop ==
    /\ pc["main"] = "r_send"
    /\ packet' = ZeroPacket
    /\ err' = "nil"
    /\ report' = ZeroReport
    /\ IF pc["writer"] = "w_recv"
       THEN /\ wreport' = report
            /\ received' = Append(received, report)
            /\ wlog' = Append(wlog, NewEntry)
            /\ pc' = [pc EXCEPT !["main"] = "r_decode", !["writer"] = "w_batch"]
       ELSE /\ Goto("main", "r_decode")
            /\ UNCHANGED <<wreport, received, wlog>>
    /\ acc' = NoAccess
    /\ UNCHANGED <<inputs, lockVars, caller, connVars, dec, derived, nDecodes, okDecodes,
                   eofs, reconnects>>

Handoff ==
    /\ pc["main"] = "r_send"
    /\ pc["writer"] = "w_recv"
    /\ wreport' = report
    /\ received' = Append(received, report)
    /\ wlog' = Append(wlog, NewEntry)
    /\ packet' = ZeroPacket
    /\ err' = "nil"
    /\ report' = ZeroReport
    /\ pc' = [pc EXCEPT !["main"] = "r_decode", !["writer"] = "w_batch"]
    /\ acc' = NoAccess
    /\ UNCHANGED <<inputs, lockVars, caller, connVars, dec, derived, nDecodes, okDecodes,
                   eofs, reconnects>>

----------------------------------------------------------------------------
(* storeReports, run by the writer task *)

SetLast(f, v) == [wlog EXCEPT ![Len(wlog)] = [@ EXCEPT ![f] = v]]

\* WriterBatch with return in place of continue
WriterBatchStop ==
    /\ pc["writer"] = "w_batch"
    /\ \E ok \in BOOLEAN :
          IF ok
          THEN /\ wlog' = SetLast("bp", "ok")
               /\ Goto("writer", "w_write")
               /\ UNCHANGED wreport
          ELSE /\ wlog' = SetLast("bp", "err")
               /\ Goto("writer", "w_stopped")
               /\ wreport' = ZeroReport
    /\ acc' = NoAccess
    /\ UNCHANGED <<lockVars, caller, connVars, readerVars, histVars>>

\* lines 136-143: NewBatchPoints returns an error or not
WriterBatch ==
    /\ pc["writer"] = "w_batch"
    /\ \E ok \in BOOLEAN :
          IF ok
          THEN /\ wlog' = SetLast("bp", "ok")
               /\ Goto("writer", "w_write")
               /\ UNCHANGED wreport
          ELSE /\ wlog' = SetLast("bp", "err")
               /\ Goto("writer", "w_recv")
               /\ wreport' = ZeroReport
    /\ acc' = NoAccess
    /\ UNCHANGED <<lockVars, caller, connVars, readerVars, histVars>>

\* WriterWrite with a failed write tried again
WriterWriteRetry ==
    /\ pc["writer"] = "w_write"
    /\ \E ok \in BOOLEAN :
          /\ wlog' = [wlog EXCEPT ![Len(wlog)] =
                         [@ EXCEPT !.writes = IF @ < 2 THEN @ + 1 ELSE @,
                                   !.wr = IF ok THEN "ok" ELSE "err"]]
          /\ wreport' = IF ok THEN ZeroReport ELSE wreport
          /\ Goto("writer", IF ok THEN "w_recv" ELSE "w_write")
    /\ acc' = NoAccess
    /\ UNCHANGED <<lockVars, caller, connVars, readerVars, histVars>>

\* lines 144-165: the point is built and ic.Write is called once
WriterWrite ==
    /\ pc["writer"] = "w_write"
    /\ \E ok \in BOOLEAN :
          wlog' = [wlog EXCEPT ![Len(wlog)] =
                      [@ EXCEPT !.writes = @ + 1,
                                !.wr = IF ok THEN "ok" ELSE "err"]]
    /\ wreport' = ZeroReport
    /\ Goto("writer", "w_recv")
    /\ acc' = NoAccess
    /\ UNCHANGED <<lockVars, caller, connVars, readerVars, histVars>>

----------------------------------------------------------------------------
(* main *)

\* line 213
MainConnect ==
    /\ pc["main"] = "m_connect"
    /\ caller' = [caller EXCEPT !["main"] = "main213"]
    /\ Goto("main", "c_rlock")
    /\ acc' = NoAccess
    /\ UNCHANGED <<lockVars, connVars, readerVars, writerVars, histVars>>

\* lines 214-215: go storeReports, then readReports
MainGo ==
    /\ pc["main"] = "m_go"
    /\ pc' = [pc EXCEPT !["main"] = "r_newdec", !["writer"] = "w_recv"]
    /\ acc' = NoAccess
    /\ UNCHANGED <<lockVars, caller, connVars, readerVars, writerVars, histVars>>

readReports ==
    \/ ReaderNewDecoder
    \/ DecodeOk
    \/ DecodeEOF
    \/ DecodeMalformed
    \/ ReaderLock
    \/ ReaderSetNotConnected
    \/ ReaderUnlock
    \/ ReaderCallConnect
    \/ ReaderBreak
    \/ ReaderGenerate

storeReports ==
    \/ WriterBatch
    \/ WriterWrite

MainTask ==
    \/ MainConnect
    \/ MainGo
    \/ connectToSerialSi1000("main")
    \/ readReports

----------------------------------------------------------------------------
(* The program: main *)

InitShared ==
    /\ status = NotConnected
    /\ conn = 0
    /\ rlock = {}
    /\ wlock = NoTask
    /\ fails = [t \in Tasks |-> 0]
    /\ nOpened = 0
    /\ dec = 0
    /\ packet = ZeroPacket
    /\ err = "nil"
    /\ report = ZeroReport
    /\ wreport = ZeroReport
    /\ inputs = <<>>
    /\ derived = <<>>
    /\ received = <<>>
    /\ wlog = <<>>
    /\ nDecodes = 0
    /\ okDecodes = 0
    /\ eofs = 0
    /\ reconnects = 0
    /\ acc = NoAccess

Init ==
    /\ InitShared
    /\ pc = [t \in Tasks |-> IF t = "main" THEN "m_connect" ELSE "idle"]
    /\ caller = [t \in Tasks |-> "none"]

Next ==
    \/ MainTask
    \/ Handoff
    \/ storeReports

Spec == Init /\ [][Next]_vars

\* the scheduler runs every runnable goroutine; some OpenPort call succeeds
FairSpec ==
    /\ Spec
    /\ WF_vars(MainTask)
    /\ WF_vars(Handoff)
    /\ WF_vars(storeReports)
    /\ SF_vars(OpenPortOk("main"))

----------------------------------------------------------------------------
(* connectToSerialSi1000 called by two tasks at once on the same DavisSi1000 *)

ConcInit ==
    /\ InitShared
    /\ pc = [t \in Tasks |-> IF t \in {"main", "aux"} THEN "c_rlock" ELSE "idle"]
    /\ caller = [t \in Tasks |-> "harness"]

ConcNext == \E t \in {"main", "aux"} : connectToSerialSi1000(t)

ConcSpec == ConcInit /\ [][ConcNext]_vars

----------------------------------------------------------------------------
(* generateWxReport applied to one packet *)

CalcTemps == {-40000, 0, 20000, 31999, 32000, 49999, 50000, 50001, 68000, 79999,
              80000, 90000}
CalcHumidities == {0, 30000, 40000, 40001, 50000, 60000, 100000}
CalcWinds == {0, 1, 5, 15}

CalcInit ==
    /\ status = NotConnected
    /\ conn = 0
    /\ rlock = {}
    /\ wlock = NoTask
    /\ fails = [t \in Tasks |-> 0]
    /\ nOpened = 0
    /\ dec = 0
    /\ \E t \in CalcTemps, rh \in CalcHumidities, ws \in CalcWinds :
          packet = Pkt(1, ws, t, rh, ws)
    /\ err = "nil"
    /\ report = ZeroReport
    /\ wreport = ZeroReport
    /\ inputs = <<>>
    /\ derived = <<>>
    /\ received = <<>>
    /\ wlog = <<>>
    /\ nDecodes = 0
    /\ okDecodes = 0
    /\ eofs = 0
    /\ reconnects = 0
    /\ acc = NoAccess
    /\ pc = [t \in Tasks |-> IF t = "main" THEN "r_gen" ELSE "idle"]
    /\ caller = [t \in Tasks |-> "none"]

CalcNext == ReaderGenerate

CalcSpec == CalcInit /\ [][CalcNext]_vars

----------------------------------------------------------------------------
(* Properties *)

\* the positions between a failed Decode and the fresh decoder
ReconnectPath ==
    {"r_lock", "r_notconn", "r_unlock", "r_call", "c_rlock", "c_switch", "c_lock1",
     "c_connecting", "c_unlock1", "c_open", "c_sleep", "c_lock2", "c_connected",
     "c_unlock2", "r_break"}

\* C1: after a Decode that returned any non-nil error, the reader is on the path
\* that sets NotConnected, calls connect and breaks to a fresh decoder; it does
\* not go on to generate or publish.
C1_DecodeFailureReconnects == err # "nil" => pc["main"] \in ReconnectPath

\* C2: reports are derived and published for successful decodes only, so there
\* are never more of them than successful decodes.
C2_PublishedOnlyDecoded == Len(derived) <= okDecodes /\ Len(received) <= okDecodes

\* C3: the reports the writer received are a prefix of the reports the reader
\* derived: same order, nothing twice.
C3_ReceivedPrefixOfDerived ==
    /\ Len(received) <= Len(derived)
    /\ received = SubSeq(derived, 1, Len(received))

C3_Witness ==
    /\ Len(received) >= 2
    /\ received[1] # received[2]
    /\ reconnects >= 1

\* C4: while an end-of-stream is being handled every report derived before it has
\* been received by the writer, and connect is called exactly once for it: one
\* call per end-of-stream once the call is made, none before.
C4_EOFOneReconnectNoLoss ==
    /\ err = "EOF" =>
          /\ pc["main"] \in ReconnectPath
          /\ received = derived
          /\ okDecodes <= Len(derived)
    /\ pc["main"] \in {"r_lock", "r_notconn", "r_unlock", "r_call"} => reconnects + 1 = eofs
    /\ pc["main"] \notin {"r_lock", "r_notconn", "r_unlock", "r_call"} => reconnects = eofs

C4_Witness ==
    /\ pc["main"] = "r_break"
    /\ okDecodes = 2
    /\ eofs = 1
    /\ Len(received) = 2

Failed(e) == e.bp = "err" \/ e.wr = "err"

Attempted(e) == e.bp = "err" \/ e.writes = 1

\* C5: after batch construction or the write failed for a report the writer is
\* back at the receive (it has not stopped), and when the next report is
\* published it is received and goes through batch construction and, that
\* succeeding, its write.
C5_WriterSurvivesFailure ==
    /\ [](wlog # <<>> /\ Failed(wlog[Len(wlog)]) => pc["writer"] = "w_recv")
    /\ \A n \in 1..(MaxDecodes - 1) :
          (Len(wlog) = n /\ Failed(wlog[n]) /\ Len(derived) = n + 1)
             ~> (Len(wlog) >= n + 1 /\ Attempted(wlog[n + 1]))

C5_Witness ==
    /\ Len(wlog) >= 2
    /\ Failed(wlog[1])
    /\ wlog[2].writes = 1

\* C6: every received report has one entry; its write is called at most once,
\* exactly once when batch construction succeeded and never when it failed; once
\* the writer is back at the receive it holds no report.
C6_ConsumedOnceNoRetry ==
    /\ Len(wlog) = Len(received)
    /\ \A i \in 1..Len(wlog) :
          /\ wlog[i].writes <= 1
          /\ wlog[i].bp = "err" => wlog[i].writes = 0
          /\ (wlog[i].bp = "ok" /\ (i < Len(wlog) \/ pc["writer"] = "w_recv"))
                => wlog[i].writes = 1
    /\ pc["writer"] = "w_recv" => wreport = ZeroReport
    /\ pc["writer"] \in {"idle", "w_recv", "w_batch", "w_write"}

C6_Witness ==
    /\ Len(wlog) >= 2
    /\ wlog[1].wr = "err"
    /\ wlog[1].writes = 1
    /\ pc["writer"] = "w_recv"

\* C7: at most one task is inside the open-and-retry loop of connect.
C7_OneAttemptInFlight ==
    Cardinality({t \in Tasks : pc[t] \in {"c_open", "c_sleep"}}) <= 1

Locked(a) ==
    /\ a.kind = "write" => a.held = "W"
    /\ a.kind = "read" => a.held \in {"R", "W"}

\* C8 as claimed: every access to d.status and to d.conn is made with the lock held.
C8_AllAccessLocked == acc.obj # "none" => Locked(acc)

\* C8 as amended: every access to d.status is made with the lock held (the write
\* lock for a write); d.conn is read and written with no lock held, and by the
\* main task only.
C8_StatusAccessLocked ==
    /\ acc.obj = "status" => Locked(acc)
    /\ acc.obj = "conn" => acc.task = "main" /\ acc.held = "none"

C8_Witness ==
    /\ acc.obj = "status"
    /\ acc.kind = "write"
    /\ status = NotConnected
    /\ nOpened = 1

\* C9: connect entered with NotConnected sets Connecting before it opens, holds
\* Connecting until an open succeeds, returns only with Connected and the opened
\* handle stored, and does return when some open succeeds.
C9_ConnectReachesConnected ==
    /\ [](pc["main"] \in {"c_unlock1", "c_open", "c_sleep", "c_lock2", "c_connected"}
             => status = Connecting)
    /\ [](pc["main"] \in {"c_unlock2", "m_go", "r_break"}
             => status = Connected /\ conn = nOpened /\ conn > 0)
    /\ (pc["main"] = "c_rlock" /\ status = NotConnected)
          ~> (pc["main"] \in {"m_go", "r_break"} /\ status = Connected)

C9_Witness ==
    /\ pc["main"] = "r_break"
    /\ status = Connected
    /\ conn = 2

\* C10: after one or more consecutive failed opens connect has not returned, the
\* state is Connecting, no handle is stored, and the sleep is followed by
\* another open attempt.
C10_RetryWithoutLimit ==
    /\ [](fails["main"] > 0 =>
             /\ pc["main"] \in {"c_sleep", "c_open"}
             /\ status = Connecting
             /\ conn = 0)
    /\ [][pc["main"] = "c_sleep" => pc'["main"] \in {"c_sleep", "c_open"}]_vars
    /\ (pc["main"] = "c_sleep") ~> (pc["main"] = "c_open")

C10_Witness ==
    /\ fails["main"] = MaxFails
    /\ pc["main"] = "c_open"
    /\ nOpened = 1

\* C11: a task whose connect reads Connecting at the switch returns at once: its
\* step releases the read lock and takes it to the return address holding no
\* lock, with d.status, d.conn and the count of opened ports unchanged.
C11_ConnectingIsNoOp ==
    [][\A t \in {"main", "aux"} :
          (pc[t] = "c_switch" /\ status = Connecting /\ pc'[t] # pc[t]) =>
             /\ pc'[t] = ReturnTo(t)
             /\ status' = status
             /\ conn' = conn
             /\ nOpened' = nOpened
             /\ t \notin rlock'
             /\ wlock' # t]_vars

C11_Witness ==
    /\ acc.obj = "status"
    /\ acc.kind = "read"
    /\ status = Connecting
    /\ pc[acc.task] = "h_done"
    /\ \E u \in {"main", "aux"} : pc[u] = "c_sleep"

\* C12: d.status starts NotConnected and every change of it is one of
\* NotConnected -> Connecting (connect, line 89), Connecting -> Connected
\* (connect, line 100), Connected -> NotConnected (readReports, line 121).
C12_StatusTransitions ==
    /\ status = NotConnected
    /\ [][status' # status =>
             \/ status = NotConnected /\ status' = Connecting /\ pc["main"] = "c_connecting"
             \/ status = Connecting /\ status' = Connected /\ pc["main"] = "c_connected"
             \/ status = Connected /\ status' = NotConnected /\ pc["main"] = "r_notconn"]_vars

C12_Witness ==
    /\ status = Connected
    /\ nOpened = 2
    /\ pc["main"] = "r_newdec"

\* C13: whenever the reader decodes, or holds a packet it decoded, its decoder
\* was created over the handle of the port opened last, which d.conn holds.
C13_DecoderOverCurrentLink ==
    pc["main"] \in {"r_decode", "r_gen", "r_send"} =>
       /\ dec > 0
       /\ dec = nOpened
       /\ dec = conn

C13_Witness ==
    /\ pc["main"] = "r_gen"
    /\ dec = 2
    /\ err = "nil"

\* C14: at most one derived report awaits receipt, and exactly then the reader
\* is at the send; the reader leaves the send only in the step in which the
\* writer receives, so it stays there while the writer is building a batch or
\* writing.
C14_BlockingHandoff ==
    /\ [](Len(derived) = Len(received) + (IF pc["main"] = "r_send" THEN 1 ELSE 0))
    /\ [][pc["main"] = "r_send" /\ pc'["main"] # "r_send" =>
             /\ pc["writer"] = "w_recv"
             /\ received' = Append(received, report)]_vars

C14_Witness ==
    /\ pc["main"] = "r_send"
    /\ pc["writer"] = "w_write"
    /\ Len(received) = 1

\* C19: a task that has returned from connect holds the status lock neither for
\* reading nor for writing.
C19_ConnectReleasesLock ==
    \A t \in {"main", "aux"} : pc[t] = "h_done" => t \notin rlock /\ wlock # t

\* C20: in the program connect is entered with NotConnected only, and while the
\* reader decodes, generates or publishes, d.status is Connected and d.conn is
\* the port opened last.
C20_ProgramStates ==
    /\ pc["main"] \in {"c_rlock", "c_switch"} => status = NotConnected
    /\ pc["main"] \in {"r_decode", "r_gen", "r_send"} =>
          /\ status = Connected
          /\ conn = nOpened
          /\ conn > 0

C20_Witness ==
    /\ pc["main"] = "r_send"
    /\ status = Connected
    /\ nOpened = 2

\* a report generated from the packet at hand
Generated == pc["main"] = "r_send" /\ report = generateWxReport(packet)

\* C16 as claimed: the report's dewpoint is exactly 0.0 for every temperature
\* below 0 C (32 F), whatever the humidity.
C16_DewpointZeroBelowFreezing ==
    (pc["main"] = "r_send" /\ packet.Temperature < 32000) => report.Dewpoint = 0

\* C16 as amended: for every temperature below 0 C (32 F), whatever the humidity,
\* dewpointCelcius returns exactly 0.0 and the report's dewpoint, which is that
\* value converted to Fahrenheit, is exactly 32.0.
C16_DewpointGuardIs32F ==
    (pc["main"] = "r_send" /\ packet.Temperature < 32000) =>
       /\ dewpointCelcius(fToC(packet.Temperature), packet.Humidity) = 0
       /\ report.Dewpoint = 32000

C16_Witness ==
    /\ Generated
    /\ packet.Temperature = 31999
    /\ packet.Humidity = 50000
    /\ report.Dewpoint = 32000

C18_WindChillUpTo50 ==
    pc["main"] = "r_send" =>
       report.WindChill =
          IF packet.Temperature <= 50000 /\ packet.WindSpeed > 0
          THEN WcF(packet.Temperature, packet.WindSpeed * 1000)
          ELSE packet.Temperature

\* C15: report n is generateWxReport of record n alone, its omitted fields
\* zero: nothing of an earlier record, failure or reconnect enters it, so the
\* same record at position n gives the same report n in every run.
C15_ReportFromOwnRecord ==
    /\ Len(inputs) = Len(derived) + (IF pc["main"] = "r_gen" THEN 1 ELSE 0)
    /\ \A n \in 1..Len(derived) :
          derived[n] = generateWxReport(Fill(ZeroPacket, inputs[n]))

C15_Witness ==
    /\ Len(derived) = 2
    /\ eofs = 1
    /\ inputs[1].val.WindSpeed = 15
    /\ inputs[2].present = {"TransmitterID", "Temperature"}
    /\ derived[2].WindSpeed = 0
    /\ derived[2].Dewpoint = NaN

====
